---- MODULE Spec2Model ----
(***************************************************************************)
(* A model of the are-we-learning-yet scraper (src/_scraper/src):          *)
(*   data.rs    the merge of an input entry with registry data and the     *)
(*              activity score,                                            *)
(*   github.rs  the read-through cache in front of the GitHub query,       *)
(*   main.rs    the driver: package loop, category expansion, output.      *)
(*                                                                         *)
(* Option<T> is a sequence of length at most one; a String that the code   *)
(* splits or parses is a sequence of one-character strings, every other    *)
(* String is a TLA+ string; a DateTime<Utc> is a number of seconds.        *)
(***************************************************************************)
EXTENDS Integers, Sequences, FiniteSets, TLC

VARIABLES
    input,      \* main.rs:37-43  the package entries read from the yaml file
    dbCrates,   \* main.rs:129-144 the crates of the requested categories
    pc,         \* the position of main (or of the operation under study)
    generated,  \* main.rs:53     Vec<GeneratedCrateInfo>
    cache,      \* util.rs        the files of the github cache, by key
    trace,      \* what each step did: fetches, cache reads and writes
    stdout,     \* main.rs:212    what println! wrote
    yamlFile    \* main.rs:213    _data/crates_generated.yaml

vars == <<input, dbCrates, pc, generated, cache, trace, stdout, yamlFile>>

----------------------------------------------------------------------------
(* Option<T> *)

None == <<>>
Some(x) == <<x>>
IsSome(o) == o # <<>>
IsNone(o) == o = <<>>
Unwrap(o) == o[1]
\* Option::or
Or(a, b) == IF IsSome(a) THEN a ELSE b
\* Option::unwrap_or
UnwrapOr(o, d) == IF IsSome(o) THEN o[1] ELSE d
\* the derived PartialOrd of Option<DateTime>: None < Some(_), Some by value
OptGreater(a, b) ==
    /\ IsSome(a)
    /\ (IsNone(b) \/ a[1] > b[1])

----------------------------------------------------------------------------
(* Arithmetic of update_score: chrono's whole days and IEEE-754 binary32 *)

SecondsPerDay == 86400
MaintainedDays == 180
UncertainDays == 365

\* Rust integer division truncates toward zero
TruncDiv(a, b) == IF a >= 0 THEN a \div b ELSE -((-a) \div b)

\* Duration::num_days of (now - t)
num_days(now, t) == TruncDiv(now - t, SecondsPerDay)

RECURSIVE BitLen(_)
BitLen(n) == IF n = 0 THEN 0 ELSE 1 + BitLen(n \div 2)

MantissaBits == 24
HalfLimb == 2 ^ 12
Limb == 2 ^ MantissaBits

\* binary32 values are records [m, e] standing for m * 2^e with m < 2^24
F32One == [m |-> 2 ^ 23, e |-> -23]
F32Half == [m |-> 2 ^ 23, e |-> -24]
\* the binary32 nearest to 0.1 is 13421773 * 2^-27
F32Tenth == [m |-> 13421773, e |-> -27]

\* round-to-nearest, ties-to-even, of q + r/2^t
RoundEven(q, r, t) ==
    IF t = 0 THEN q
    ELSE LET half == 2 ^ (t - 1)
         IN IF r > half \/ (r = half /\ q % 2 = 1) THEN q + 1 ELSE q

\* `n as f32` for an unsigned integer n
U64AsF32(n) ==
    IF n < Limb THEN [m |-> n, e |-> 0]
    ELSE LET t == BitLen(n) - MantissaBits
         IN [m |-> RoundEven(n \div (2 ^ t), n % (2 ^ t), t), e |-> t]

\* a * b in binary32: the exact 48-bit product as two 24-bit limbs, rounded
\* to 24 significant bits
F32Mul(a, b) ==
    LET ah == a.m \div HalfLimb
        al == a.m % HalfLimb
        bh == b.m \div HalfLimb
        bl == b.m % HalfLimb
        mid == ah * bl + al * bh
        lo0 == (mid % HalfLimb) * HalfLimb + al * bl
        hi == ah * bh + mid \div HalfLimb + lo0 \div Limb
        lo == lo0 % Limb
        t == BitLen(hi)
        q == hi * (2 ^ (MantissaBits - t)) + lo \div (2 ^ t)
    IN [m |-> RoundEven(q, lo % (2 ^ t), t), e |-> a.e + b.e + t]

\* f32::floor(x) as u64, for x >= 0
F32FloorAsU64(x) ==
    IF x.e >= 0 THEN x.m * (2 ^ x.e)
    ELSE IF -x.e > 30 THEN 0
    ELSE x.m \div (2 ^ (-x.e))

----------------------------------------------------------------------------
(* data.rs: GeneratedCrateInfo and its score *)

\* the clock read by Utc::now()
Now == 1000 * SecondsPerDay

GeneratedCrateInfo(topics, score, krate, repo) ==
    [topics |-> topics, score |-> score, krate |-> krate, repo |-> repo]

last_activity(self) ==
    LET fromCrate == IF IsSome(self.krate)
                     THEN Some(Unwrap(self.krate).updated_at) ELSE None
        lastCommit == IF IsSome(self.repo)
                      THEN Some(Unwrap(self.repo).last_commit) ELSE None
    IN IF IsSome(lastCommit) /\ OptGreater(lastCommit, fromCrate)
       THEN lastCommit ELSE fromCrate

coefficient(self) ==
    LET la == last_activity(self)
    IN IF IsNone(la) THEN F32Tenth
       ELSE LET inactive_days == num_days(Now, Unwrap(la))
            IN IF inactive_days <= MaintainedDays THEN F32One
               ELSE IF inactive_days <= UncertainDays THEN F32Half
               ELSE F32Tenth

recent_downloads_mut(self) ==
    IF IsSome(self.krate)
    THEN UnwrapOr(Unwrap(self.krate).recent_downloads, 0)
    ELSE 1

recent_downloads(self) ==
    IF IsSome(self.krate)
    THEN UnwrapOr(Unwrap(self.krate).recent_downloads, 0)
    ELSE 0

update_score(self) ==
    LET unpublished == IF IsNone(self.krate)
                       THEN [self EXCEPT !.score = Some(0)] ELSE self
    IN [unpublished EXCEPT !.score =
          Some(F32FloorAsU64(
                 F32Mul(coefficient(unpublished),
                        U64AsF32(recent_downloads(unpublished)))))]

----------------------------------------------------------------------------
(* Strings that the code parses or splits, as sequences of characters *)

Https == <<"h", "t", "t", "p", "s">>
SchemeSep == <<":", "/", "/">>
GithubCom == <<"g", "i", "t", "h", "u", "b", ".", "c", "o", "m">>
GitlabCom == <<"g", "i", "t", "l", "a", "b", ".", "c", "o", "m">>
DotGit == <<".", "g", "i", "t">>

\* ASCII lower-casing, for the letters the model's hosts are written in
ToLower(c) ==
    CASE c = "G" -> "g"
      [] c = "H" -> "h"
      [] OTHER -> c

LowerAll(s) == [k \in 1..Len(s) |-> ToLower(s[k])]

\* the index of the first occurrence of pat in s at or after from, or 0
RECURSIVE Find(_, _, _)
Find(s, pat, from) ==
    IF from + Len(pat) - 1 > Len(s) THEN 0
    ELSE IF SubSeq(s, from, from + Len(pat) - 1) = pat THEN from
    ELSE Find(s, pat, from + 1)

\* str::split(&[..]): the pieces between delimiters, empty pieces included
RECURSIVE SplitFrom(_, _, _, _)
SplitFrom(s, delims, k, piece) ==
    IF k > Len(s) THEN <<piece>>
    ELSE IF s[k] \in delims THEN <<piece>> \o SplitFrom(s, delims, k + 1, <<>>)
    ELSE SplitFrom(s, delims, k + 1, Append(piece, s[k]))

Split(s, delims) == SplitFrom(s, delims, 1, <<>>)

\* url::Url, for absolute http(s) URLs without port, userinfo, query,
\* fragment, dot segments or characters that need percent-encoding:
\* scheme and host are lower-cased, an empty path becomes "/".
\* A string without "://" is a relative URL without a base: an error.
UrlParse(s) ==
    LET sep == Find(s, SchemeSep, 1)
    IN IF sep <= 1 THEN None
       ELSE LET rest == SubSeq(s, sep + Len(SchemeSep), Len(s))
                slash == Find(rest, <<"/">>, 1)
                host == IF slash = 0 THEN rest ELSE SubSeq(rest, 1, slash - 1)
                path == IF slash = 0 THEN <<"/">>
                        ELSE SubSeq(rest, slash, Len(rest))
            IN IF host = <<>> THEN None
               ELSE Some([scheme |-> LowerAll(SubSeq(s, 1, sep - 1)),
                          host |-> LowerAll(host),
                          path |-> path])

\* Url::to_string: the serialization
UrlToString(u) == u.scheme \o SchemeSep \o u.host \o u.path

host_str(u) == Some(u.host)

----------------------------------------------------------------------------
(* data.rs: the input entries and the merge *)

Crate(name, description, license, documentation, repository, recent, updated) ==
    [name |-> name, description |-> description, license |-> license,
     documentation |-> documentation, repository |-> repository,
     recent_downloads |-> recent, updated_at |-> updated]

CratesIoInputCrateInfo(name, topics, documentation, repository, license, desc) ==
    [kind |-> "CratesIo", name |-> name, topics |-> topics,
     documentation |-> documentation, repository |-> repository,
     license |-> license, description |-> desc]

ManualCrateInfo(topics, score, krate, repo) ==
    [kind |-> "Manual", topics |-> topics, score |-> score,
     krate |-> krate, repo |-> repo]

\* what CratesIo::get_crate_data answered
RegistryErr == [ok |-> FALSE]
RegistryOk(data) == [ok |-> TRUE, data |-> data]

fill_manually_mut(krate) ==
    GeneratedCrateInfo(krate.topics, None, krate.krate, None)

fill_manually(krate) ==
    GeneratedCrateInfo(krate.topics, None, krate.krate, krate.repo)

DocsRs(name) == "https://docs.rs/crate/" \o name

OverrideWins(primary, fallback) == Or(fallback, primary)

\* Option::or of the registry's field and the input's override
Coalesce(primary, fallback) == Or(primary, fallback)

\* the Ok(mut data) arm of from_crates_io
override_crate_data(data, krate) ==
    LET documentation == Coalesce(data.documentation, krate.documentation)
    IN [data EXCEPT
          !.license = Coalesce(data.license, krate.license),
          !.documentation = IF IsNone(documentation)
                            THEN Some(DocsRs(data.name)) ELSE documentation,
          !.repository =
              Coalesce(data.repository,
                       IF IsSome(krate.repository)
                       THEN Some(UrlToString(Unwrap(krate.repository)))
                       ELSE None),
          !.description = Coalesce(data.description, krate.description)]

\* reg is the registry's answer, read only when a name is given
from_crates_io(krate, reg) ==
    LET this == GeneratedCrateInfo(krate.topics, None, None, None)
    IN IF IsSome(krate.name)
       THEN [gen |-> IF reg.ok
                     THEN [this EXCEPT
                             !.krate = Some(override_crate_data(reg.data, krate))]
                     ELSE this,
             fetched |-> Some([name |-> Unwrap(krate.name), response |-> reg])]
       ELSE [gen |-> this, fetched |-> None]

try_from(in, reg) ==
    IF in.kind = "CratesIo" THEN from_crates_io(in, reg)
    ELSE [gen |-> fill_manually(in), fetched |-> None]

----------------------------------------------------------------------------
(* github.rs: RepoData and the read-through cache *)

Ok(x) == [ok |-> TRUE, data |-> x]
Err(e) == [ok |-> FALSE, err |-> e]

RepoData(name, stars, last_commit, contributors, issues) ==
    [name |-> name, stargazers_count |-> stars, last_commit |-> last_commit,
     contributor_count |-> contributors, open_issues_count |-> issues]

\* The serde_json::Value of a response: data.repository with its four
\* fields, a missing or null field being None.
GraphqlValue(stars, pushedAt, collaborators, issues) ==
    [stars |-> stars, pushedAt |-> pushedAt,
     collaborators |-> collaborators, issues |-> issues]

\* u32 and DateTime fail to deserialize from null, Option<u32> does not
from_graphql_data(name, val) ==
    IF IsNone(val.stars) \/ IsNone(val.pushedAt)
    THEN Err("invalid type: null")
    ELSE Ok(RepoData(name, Unwrap(val.stars), Unwrap(val.pushedAt),
                     val.collaborators, val.issues))

\* What the platform answers to the query: a transport or auth error, a
\* list of errors (non-empty, each with a message, as GraphQL requires),
\* or a value.
RemoteTransportError == [kind |-> "transport"]
RemoteErrors(message) == [kind |-> "errors", message |-> message]
RemoteValue(v) == [kind |-> "value", value |-> v]

fetch_remote_repo_data(username, repo, remote) ==
    CASE remote.kind = "transport" -> Err("transport")
      [] remote.kind = "errors" -> Err(remote.message)
      [] OTHER -> Ok(remote.value)

\* format!("{}--{}", username, repo)
CacheKey(username, repo) == username \o <<"-", "-">> \o repo

\* format!("{}/{}", username, repo)
RepoName(username, repo) == username \o <<"/">> \o repo

\* The content of a cache file: Some(v) when it deserializes to the Value v,
\* None when it does not.
Garbage == None

\* util::read_cache: the file's value, or an error when the file is
\* missing, unreadable or does not deserialize
read_cache(files, key, readable) ==
    IF readable /\ key \in DOMAIN files /\ files[key] # Garbage
    THEN Ok(Unwrap(files[key]))
    ELSE Err("cache miss")

\* util::write_cache: the file holds the value when the write succeeds
write_cache(files, key, data, writable) ==
    IF writable
    THEN [k \in DOMAIN files \cup {key} |->
            IF k = key THEN Some(data) ELSE files[k]]
    ELSE files

DiscardMut(result, writable) ==
    IF writable THEN result ELSE Err("cache write")

\* `let _ = write_cache(..)`: the outcome of the write is dropped
Discard(result, writable) == result

\* env is what the world does during the call: whether cache_path works,
\* whether the cache file can be read, the platform's answer, whether the
\* cache file can be written.
get_repo_data(username, repo, env, files) ==
    LET key == CacheKey(username, repo)
        hit == read_cache(files, key, env.readable)
        readEv == [op |-> "read_cache", key |-> key, hit |-> hit.ok]
        fetched == fetch_remote_repo_data(username, repo, env.remote)
        queryEv == [op |-> "graphql", owner |-> username, repo |-> repo,
                    ok |-> fetched.ok]
        written == IF fetched.ok
                   THEN write_cache(files, key, fetched.data, env.writable)
                   ELSE files
        writeEv == [op |-> "write_cache", key |-> key, data |-> fetched.data,
                    ok |-> env.writable]
        parseEv == [op |-> "from_graphql_data"]
    IN IF ~env.pathOk
       THEN [result |-> Err("cache_path"), files |-> files, events |-> <<>>]
       ELSE IF hit.ok
       THEN [result |-> from_graphql_data(RepoName(username, repo), hit.data),
             files |-> files,
             events |-> <<readEv, parseEv>>]
       ELSE IF ~fetched.ok
       THEN [result |-> fetched, files |-> files,
             events |-> <<readEv, queryEv>>]
       ELSE [result |-> Discard(from_graphql_data(RepoName(username, repo),
                                                  fetched.data),
                                env.writable),
             files |-> written,
             events |-> <<readEv, queryEv, writeEv, parseEv>>]

----------------------------------------------------------------------------
(* main.rs: one iteration of each loop, and the output *)

PathDelimiters == {"/", "."}

IsGithubMut(repo) == host_str(repo) # None

\* repo.host_str() == Some("github.com")
IsGithub(repo) == host_str(repo) = Some(GithubCom)

attach_repo_mut(gen, result) ==
    IF result.ok THEN [gen EXCEPT !.repo = Some(result.data)]
    ELSE [gen EXCEPT !.repo = None]

\* main.rs:73-81: Ok(data) sets gen.repo, Err(err) is printed
attach_repo(gen, result) ==
    IF result.ok THEN [gen EXCEPT !.repo = Some(result.data)] ELSE gen

\* The body of `for krate in input`: merge, resolve the repository, fetch
\* the repo data, score.  outcome is "pushed", or what ended the run:
\* "panic" (Url::parse(..).unwrap()) or "ensure" (parts.len() >= 3).
process_package(krate, reg, env, files) ==
    LET merged == try_from(krate, reg)
        gen == merged.gen
        repoStr == IF IsSome(gen.krate)
                   THEN Unwrap(gen.krate).repository ELSE None
        repo_opt == IF IsSome(repoStr) THEN UrlParse(Unwrap(repoStr)) ELSE None
        routed == IsSome(repo_opt) /\ IsGithub(Unwrap(repo_opt))
        parts == IF routed THEN Split(Unwrap(repo_opt).path, PathDelimiters)
                 ELSE <<>>
        call == get_repo_data(parts[2], parts[3], env, files)
        step == [kind |-> "package", entry |-> krate, merged |-> gen,
                 fetched |-> merged.fetched, gh |-> None, final |-> None,
                 outcome |-> "pushed"]
    IN IF IsSome(repoStr) /\ IsNone(repo_opt)
       THEN [abort |-> TRUE, files |-> files,
             step |-> [step EXCEPT !.outcome = "panic"]]
       ELSE IF ~routed
       THEN [abort |-> FALSE, files |-> files,
             step |-> [step EXCEPT !.final = Some(update_score(gen))]]
       ELSE IF ~(Len(parts) >= 3)
       THEN [abort |-> TRUE, files |-> files,
             step |-> [step EXCEPT !.outcome = "ensure"]]
       ELSE [abort |-> FALSE, files |-> call.files,
             step |-> [step EXCEPT
                  !.gh = Some([owner |-> parts[2], repo |-> parts[3],
                               ok |-> call.result.ok]),
                  !.final = Some(update_score(attach_repo(gen, call.result)))]]

\* chrono_tz's Europe/London over the years of the model: summer time, an
\* hour ahead of UTC, starts at the UTC instant BstStart and ends at BstEnd
BstStart == 900 * SecondsPerDay + 3600
BstEnd == 980 * SecondsPerDay + 3600

\* London.from_local_datetime(&t): the UTC instant of the local time t, or
\* None for a local time that does not exist (the hour skipped when summer
\* time starts) or is ambiguous (the hour repeated when it ends)
LondonToUtc(t) ==
    IF t < BstStart THEN Some(t)
    ELSE IF t < BstStart + 3600 THEN None
    ELSE IF t < BstEnd THEN Some(t - 3600)
    ELSE IF t < BstEnd + 3600 THEN None
    ELSE Some(t)

\* the ManualCrateInfo built from a row of the snapshot, main.rs:166-203
SynthesizedEntry(row) ==
    ManualCrateInfo(row.topics, None,
        Some(Crate(row.name, Some(row.description), None, row.documentation,
                   row.repository, None,
                   Unwrap(LondonToUtc(row.updated_at)))),
        None)

\* The body of `for krate in crates`: build the entry, merge and score.
\* The unwrap of either converted timestamp panics on None.
process_category_crate(row) ==
    LET info == SynthesizedEntry(row)
        merged == try_from(info, RegistryErr)
    IN IF IsNone(LondonToUtc(row.created_at))
            \/ IsNone(LondonToUtc(row.updated_at))
       THEN [kind |-> "category", entry |-> row, merged |-> None,
             fetched |-> None, gh |-> None, final |-> None,
             outcome |-> "panic"]
       ELSE [kind |-> "category", entry |-> info, merged |-> merged.gen,
             fetched |-> merged.fetched, gh |-> None,
             final |-> Some(update_score(merged.gen)), outcome |-> "pushed"]

\* Serialize for GeneratedCrateInfo: krate is written as "meta", and meta
\* and repo are left out when absent
Serialize(gen) ==
    [topics |-> gen.topics, score |-> gen.score]
      @@ (IF IsSome(gen.krate) THEN [meta |-> Unwrap(gen.krate)] ELSE <<>>)
      @@ (IF IsSome(gen.repo) THEN [repo |-> Unwrap(gen.repo)] ELSE <<>>)

SerializeAll(gens) == [k \in 1..Len(gens) |-> Serialize(gens[k])]

----------------------------------------------------------------------------
(* The inputs of the model *)

MaxEntries == 2
MaxSmallDownloads == 20

\* all sequences over S of length at most n
BoundedSeq(S, n) == UNION {[1..k -> S] : k \in 0..n}

Optional(S) == {None} \cup {Some(x) : x \in S}

UrlString(host, path) == Https \o SchemeSep \o host \o path

GhOR == UrlString(GithubCom, <<"/", "o", "/", "r">>)
GhORGit == UrlString(GithubCom, <<"/", "o", "/", "r">> \o DotGit)
GhODotted == UrlString(GithubCom, <<"/", "o", "/", "a", ".", "b">>)
GhODottedGit == UrlString(GithubCom, <<"/", "o", "/", "a", ".", "b">> \o DotGit)
GhOnlyOwner == UrlString(GithubCom, <<"/", "o">>)
GhNoPath == UrlString(GithubCom, <<>>)
GhUpperHost == UrlString(<<"G", "i", "t", "H", "u", "b", ".", "c", "o", "m">>,
                         <<"/", "o", "/", "r">>)
GlOR == UrlString(GitlabCom, <<"/", "o", "/", "r">>)
GlOnlyOwner == UrlString(GitlabCom, <<"/", "o">>)
NotAUrl == <<"o", "/", "r">>

RepoStrings ==
    {GhOR, GhORGit, GhODotted, GhODottedGit, GhOnlyOwner, GhNoPath,
     GhUpperHost, GlOR, GlOnlyOwner, NotAUrl}

\* the Url values an input document can hold: parseable strings, parsed
InputUrls == {Unwrap(UrlParse(s)) : s \in {GhORGit, GhUpperHost, GhNoPath, GlOR}}

\* timestamps around the thresholds of the score, to the second
Ages == {0, MaintainedDays, MaintainedDays + 1, UncertainDays, UncertainDays + 1}
Times ==
    {Now - d * SecondsPerDay - off : d \in Ages, off \in {0, SecondsPerDay - 1}}
      \cup {Now + 3600}

Downloads ==
    (0..MaxSmallDownloads)
      \cup {1000, Limb - 1, Limb, Limb + 1, Limb + 3, 2 * Limb + 6}

Recent == Now - 40 * SecondsPerDay
Stale == Now - 400 * SecondsPerDay

GoodValue == GraphqlValue(Some(5), Some(Recent), None, Some(2))
OtherValue == GraphqlValue(Some(9), Some(Stale), Some(1), None)
NullValue == GraphqlValue(None, None, None, None)

Remotes ==
    {RemoteTransportError, RemoteErrors("Could not resolve to a Repository"),
     RemoteValue(GoodValue), RemoteValue(OtherValue), RemoteValue(NullValue)}

GhEnvs ==
    [pathOk : BOOLEAN, readable : BOOLEAN, remote : Remotes, writable : BOOLEAN]

PipelineEnvs ==
    [pathOk : {TRUE}, readable : BOOLEAN,
     remote : {RemoteTransportError, RemoteValue(GoodValue)},
     writable : BOOLEAN]

ManualRepo == RepoData(<<"o", "/", "r">>, 1, Stale, None, None)

PackageCrate(repository) ==
    Crate("foo", Some("desc"), Some("MIT"), Some("doc"), repository,
          Some(1000), Stale)

RegistryAnswers ==
    {RegistryErr}
      \cup {RegistryOk(PackageCrate(r)) : r \in Optional(RepoStrings)}

PipelineAnswers ==
    {RegistryErr}
      \cup {RegistryOk(PackageCrate(r)) :
              r \in Optional({GhORGit, GhOnlyOwner, NotAUrl})}

PipelineEntries ==
    {CratesIoInputCrateInfo(Some("foo"), <<"a">>, None, None, None, None),
     CratesIoInputCrateInfo(Some("foo"), <<"b">>, None,
                            Some(Unwrap(UrlParse(GhORGit))), None, None),
     ManualCrateInfo(<<"c">>, Some(7), None, None),
     ManualCrateInfo(<<"d">>, None, Some(PackageCrate(Some(GhORGit))),
                     Some(ManualRepo)),
     ManualCrateInfo(<<"e">>, None, Some(PackageCrate(Some(GhOnlyOwner))), None)}

\* one entry of every shape, with every repository string
ResolveEntries ==
    {CratesIoInputCrateInfo(n, <<"a">>, None, u, None, None) :
        n \in Optional({"foo"}), u \in Optional(InputUrls)}
      \cup {ManualCrateInfo(<<"m">>, None, k, r) :
              k \in Optional({PackageCrate(x) : x \in Optional(RepoStrings)}),
              r \in Optional({ManualRepo})}

\* a row of the snapshot's crates table, its timestamps London local times
DbRow(repository, updated) ==
    [name |-> "bar", description |-> "from the snapshot",
     documentation |-> None, repository |-> repository,
     topics |-> <<"Robotics">>, created_at |-> Stale, updated_at |-> updated]

\* what the snapshot holds for the requested categories, in the order of the
\* HashMap's iteration
DbSnapshots ==
    {<<>>,
     <<DbRow(Some(GhOR), Recent)>>,
     <<DbRow(None, Now), DbRow(Some(GlOR), Recent)>>,
     <<DbRow(Some(GhOR), BstStart + 1800), DbRow(None, Recent)>>}

NoCategories == [requested |-> FALSE, crates |-> <<>>]

----------------------------------------------------------------------------
(* main.rs as a state machine *)

Init ==
    /\ input \in BoundedSeq(PipelineEntries, MaxEntries)
    /\ dbCrates \in {NoCategories}
                      \cup {[requested |-> TRUE, crates |-> c] : c \in DbSnapshots}
    /\ pc = "packages"
    /\ generated = <<>>
    /\ cache = <<>>
    /\ trace = <<>>
    /\ stdout = None
    /\ yamlFile = None

AfterEntryMut(abort, here) == here

\* `?`, ensure! and unwrap leave main; otherwise the loop goes on
AfterEntry(abort, here) == IF abort THEN "aborted" ELSE here

\* main.rs:55-86, the registry answering from regs and the world of the
\* github call behaving as one of envs
ProcessPackage(regs, envs) ==
    /\ pc = "packages"
    /\ Len(trace) < Len(input)
    /\ \E reg \in regs, env \in envs :
         LET r == process_package(input[Len(trace) + 1], reg, env, cache)
         IN /\ trace' = Append(trace, r.step)
            /\ generated' = IF r.abort THEN generated
                            ELSE Append(generated, Unwrap(r.step.final))
            /\ cache' = r.files
            /\ pc' = AfterEntry(r.abort, "packages")
    /\ UNCHANGED <<input, dbCrates, stdout, yamlFile>>

\* main.rs:98-144: make_sure_db_is_available and the load of the snapshot,
\* either of which may fail
LoadDb ==
    /\ pc = "packages"
    /\ Len(trace) = Len(input)
    /\ dbCrates.requested
    /\ \E ok \in BOOLEAN : pc' = AfterEntry(~ok, "categories")
    /\ UNCHANGED <<input, dbCrates, generated, cache, trace, stdout, yamlFile>>

\* main.rs:151-208
ProcessCategoryCrate ==
    /\ pc = "categories"
    /\ Len(trace) < Len(input) + Len(dbCrates.crates)
    /\ LET step == process_category_crate(
                       dbCrates.crates[Len(trace) - Len(input) + 1])
       IN /\ trace' = Append(trace, step)
          /\ generated' = IF step.outcome = "pushed"
                          THEN Append(generated, Unwrap(step.final))
                          ELSE generated
          /\ pc' = AfterEntry(step.outcome # "pushed", "categories")
    /\ UNCHANGED <<input, dbCrates, cache, stdout, yamlFile>>

LoopsDone ==
    \/ pc = "packages" /\ Len(trace) = Len(input) /\ ~dbCrates.requested
    \/ pc = "categories" /\ Len(trace) = Len(input) + Len(dbCrates.crates)

\* main.rs:212-213: println! of the JSON, then write_yaml, which may fail
WriteOutput ==
    /\ LoopsDone
    /\ stdout' = Some(SerializeAll(generated))
    /\ \E ok \in BOOLEAN :
         /\ yamlFile' = IF ok THEN Some(SerializeAll(generated)) ELSE yamlFile
         /\ pc' = AfterEntry(~ok, "done")
    /\ UNCHANGED <<input, dbCrates, generated, cache, trace>>

Next ==
    \/ ProcessPackage(PipelineAnswers, PipelineEnvs)
    \/ LoadDb
    \/ ProcessCategoryCrate
    \/ WriteOutput

Spec == Init /\ [][Next]_vars

\* main over a single entry of any shape
InitResolve ==
    /\ input \in {<<e>> : e \in ResolveEntries}
    /\ dbCrates = NoCategories
    /\ pc = "packages"
    /\ generated = <<>>
    /\ cache \in {<<>>, [k \in {CacheKey(<<"o">>, <<"r">>)} |-> Some(OtherValue)]}
    /\ trace = <<>>
    /\ stdout = None
    /\ yamlFile = None

NextResolve == ProcessPackage(RegistryAnswers, GhEnvs) \/ WriteOutput

SpecResolve == InitResolve /\ [][NextResolve]_vars

----------------------------------------------------------------------------
(* update_score on its own: every entry the merge and the fetch can leave *)

ScoreCrates ==
    {Crate("foo", None, None, None, None, d, t) :
        d \in Optional(Downloads), t \in Times}

ScoreRepos == {RepoData(<<"o", "/", "r">>, 1, t, None, None) : t \in Times}

InitScore ==
    /\ generated \in {<<GeneratedCrateInfo(<<"a">>, None, k, r)>> :
                        k \in Optional(ScoreCrates), r \in Optional(ScoreRepos)}
    /\ pc = "merged"
    /\ trace = <<>>
    /\ input = <<>>
    /\ dbCrates = NoCategories
    /\ cache = <<>>
    /\ stdout = None
    /\ yamlFile = None

\* main.rs:84 gen.update_score(); trace keeps the entry as it was
UpdateScore ==
    /\ pc = "merged"
    /\ generated' = <<update_score(generated[1])>>
    /\ trace' = <<generated[1]>>
    /\ pc' = "scored"
    /\ UNCHANGED <<input, dbCrates, cache, stdout, yamlFile>>

SpecScore == InitScore /\ [][UpdateScore]_vars

----------------------------------------------------------------------------
(* GeneratedCrateInfo::try_from on its own *)

MergeInputs ==
    {CratesIoInputCrateInfo(n, <<"a">>, doc, repo, lic, desc) :
        n \in Optional({"foo"}), doc \in Optional({"in-doc"}),
        repo \in Optional(InputUrls), lic \in Optional({"in-lic"}),
        desc \in Optional({"in-desc"})}
      \cup {ManualCrateInfo(<<"m">>, sc, k, r) :
              sc \in Optional({7}),
              k \in Optional({PackageCrate(Some(GhOR))}),
              r \in Optional({ManualRepo})}

MergeAnswers ==
    {RegistryErr}
      \cup {RegistryOk(Crate("foo", desc, lic, doc, repo, Some(1000), Recent)) :
              desc \in Optional({"reg-desc"}), lic \in Optional({"reg-lic"}),
              doc \in Optional({"reg-doc"}),
              repo \in Optional({GhODotted, GlOR})}

InitMerge ==
    /\ input \in {<<e>> : e \in MergeInputs}
    /\ pc = "merge"
    /\ generated = <<>>
    /\ trace = <<>>
    /\ dbCrates = NoCategories
    /\ cache = <<>>
    /\ stdout = None
    /\ yamlFile = None

\* main.rs:58 GeneratedCrateInfo::try_from(krate).await
Merge ==
    /\ pc = "merge"
    /\ \E reg \in MergeAnswers :
         LET merged == try_from(input[1], reg)
         IN /\ generated' = <<merged.gen>>
            /\ trace' = <<[fetched |-> merged.fetched]>>
    /\ pc' = "merged"
    /\ UNCHANGED <<input, dbCrates, cache, stdout, yamlFile>>

SpecMerge == InitMerge /\ [][Merge]_vars

----------------------------------------------------------------------------
(* Github::get_repo_data on its own, called again and again *)

Owners == {<<"o">>}
Repos == {<<"r">>, <<"a">>}
CacheKeys == {CacheKey(o, r) : o \in Owners, r \in Repos}
CacheContents == {Garbage, Some(GoodValue), Some(OtherValue), Some(NullValue)}

InitCache ==
    /\ cache \in UNION {[K -> CacheContents] : K \in SUBSET CacheKeys}
    /\ pc = "idle"
    /\ trace = <<>>
    /\ input = <<>>
    /\ generated = <<>>
    /\ dbCrates = NoCategories
    /\ stdout = None
    /\ yamlFile = None

\* github.rs:89-102; trace keeps the call, the cache before it, its result
\* and what it did
GetRepoData ==
    /\ \E o \in Owners, r \in Repos, env \in GhEnvs :
         LET call == get_repo_data(o, r, env, cache)
         IN /\ cache' = call.files
            /\ trace' = <<[owner |-> o, repo |-> r, env |-> env,
                           before |-> cache, result |-> call.result,
                           events |-> call.events]>>
    /\ pc' = "called"
    /\ UNCHANGED <<input, generated, dbCrates, stdout, yamlFile>>

SpecCache == InitCache /\ [][GetRepoData]_vars

----------------------------------------------------------------------------
(* The merge: C1, C2 (checked under SpecMerge) *)

OverridableFields == {"license", "documentation", "repository", "description"}

\* the override of field f shows as v in the merged Crate: a string field by
\* equality, the repository by being the string that parses to the input's Url
ShowsOverride(in, f, v) ==
    IF f = "repository"
    THEN IsSome(v) /\ UrlParse(Unwrap(v)) = in.repository
    ELSE v = in[f]

RegistryAnswered ==
    /\ pc = "merged"
    /\ input[1].kind = "CratesIo"
    /\ IsSome(input[1].name)
    /\ IsSome(trace[1].fetched)
    /\ Unwrap(trace[1].fetched).response.ok

\* C1: for a registry-sourced entry with a name whose registry fetch
\* succeeds, each of license, documentation, repository and description
\* holds the registry's value when the registry supplied one, and the
\* input's override when the registry left it absent and the override is set.
C1_RegistryWinsOverrideFills ==
    RegistryAnswered =>
        /\ IsSome(generated[1].krate)
        /\ LET reg == Unwrap(trace[1].fetched).response.data
               out == Unwrap(generated[1].krate)
           IN \A f \in OverridableFields :
                /\ IsSome(reg[f]) => out[f] = reg[f]
                /\ (IsNone(reg[f]) /\ IsSome(input[1][f]))
                      => ShowsOverride(input[1], f, out[f])

\* a merge where the registry's license beats an override and the
\* repository override, being the only value, is used
C1_Witness ==
    /\ RegistryAnswered
    /\ LET reg == Unwrap(trace[1].fetched).response.data
       IN /\ IsSome(reg.license) /\ IsSome(input[1].license)
          /\ reg.license # input[1].license
          /\ IsNone(reg.repository) /\ IsSome(input[1].repository)
          /\ IsNone(reg.description) /\ IsSome(input[1].description)

\* C2 as claimed: for a manual entry the merge returns the input's topics,
\* score, package metadata and repo metadata, and fetches nothing.
C2_ManualPassesThrough ==
    (pc = "merged" /\ input[1].kind = "Manual") =>
        /\ generated[1].topics = input[1].topics
        /\ generated[1].score = input[1].score
        /\ generated[1].krate = input[1].krate
        /\ generated[1].repo = input[1].repo
        /\ IsNone(trace[1].fetched)

\* C2 as amended: for a manual entry the merge returns the input's topics,
\* package metadata and repo metadata, no score whatever score the input
\* supplied, and fetches nothing.
C2_ManualKeepsAllButScore ==
    (pc = "merged" /\ input[1].kind = "Manual") =>
        /\ generated[1].topics = input[1].topics
        /\ generated[1].krate = input[1].krate
        /\ generated[1].repo = input[1].repo
        /\ IsNone(generated[1].score)
        /\ IsNone(trace[1].fetched)

\* a merged manual entry that supplied a score, package metadata with a
\* github.com repository, and repo metadata
C2_Witness ==
    /\ pc = "merged"
    /\ input[1].kind = "Manual"
    /\ IsSome(input[1].score)
    /\ IsSome(input[1].krate)
    /\ IsSome(input[1].repo)
    /\ generated[1].repo = input[1].repo

----------------------------------------------------------------------------
(* The score: C3, C4 (checked under SpecScore) *)

\* the later of the timestamps present, as a set: empty when neither is
LatestActivity(gen) ==
    LET present == {Unwrap(gen.krate).updated_at : x \in {1} \cap
                        (IF IsSome(gen.krate) THEN {1} ELSE {})}
                     \cup {Unwrap(gen.repo).last_commit : x \in {1} \cap
                             (IF IsSome(gen.repo) THEN {1} ELSE {})}
    IN {t \in present : \A u \in present : u <= t}

\* whole days from t to now; the model's timestamps are at most an hour ahead
\* of now, which is no whole day ago
WholeDaysAgo(t) == IF t >= Now THEN 0 ELSE (Now - t) \div SecondsPerDay

\* the coefficient of the claim, as a fraction <<numerator, denominator>>
ClaimedCoefficient(gen) ==
    IF LatestActivity(gen) = {} THEN <<1, 10>>
    ELSE LET days == WholeDaysAgo(CHOOSE t \in LatestActivity(gen) : TRUE)
         IN IF days <= 180 THEN <<1, 1>>
            ELSE IF days <= 365 THEN <<1, 2>>
            ELSE <<1, 10>>

ClaimedDownloads(gen) ==
    IF IsSome(gen.krate) /\ IsSome(Unwrap(gen.krate).recent_downloads)
    THEN Unwrap(Unwrap(gen.krate).recent_downloads)
    ELSE 0

\* floor(c * D) in exact arithmetic
ClaimedScore(gen) ==
    (ClaimedCoefficient(gen)[1] * ClaimedDownloads(gen))
        \div ClaimedCoefficient(gen)[2]

\* C3: update_score sets score = floor(c * D), D the recent downloads (0 if
\* absent), c = 0.1 without last activity, 1.0 up to 180 whole days, 0.5 from
\* 181 to 365, 0.1 beyond, for every D.
C3_ScoreIsFloorOfCoefficientTimesDownloads ==
    pc = "scored" => generated[1].score = Some(ClaimedScore(generated[1]))

\* the claim of C3 where `recent_downloads as f32` is exact
ScoreIsFloorUpToLimb ==
    (pc = "scored" /\ ClaimedDownloads(generated[1]) <= Limb)
        => generated[1].score = Some(ClaimedScore(generated[1]))

\* C4: an entry without package metadata scores exactly 0, with or without
\* repo metadata.
C4_UnpublishedScoresZero ==
    (pc = "scored" /\ IsNone(generated[1].krate))
        => generated[1].score = Some(0)

\* scored without package metadata but with a push within the last 180 days,
\* where the coefficient is 1.0
C4_Witness ==
    /\ pc = "scored"
    /\ IsNone(generated[1].krate)
    /\ IsSome(generated[1].repo)
    /\ num_days(Now, Unwrap(generated[1].repo).last_commit) <= MaintainedDays
    /\ generated[1].score = Some(0)

----------------------------------------------------------------------------
(* The driver: C5, C9, C10 (under Spec), C7, C8 (under SpecResolve) *)

PackageSteps == {i \in 1..Len(trace) : trace[i].kind = "package"}
CategorySteps == {i \in 1..Len(trace) : trace[i].kind = "category"}

\* the repository of the merged entry, as the string the Crate holds
MergedRepository(step) ==
    IF IsSome(step.merged.krate)
    THEN Unwrap(step.merged.krate).repository ELSE None

HasUrl(step) ==
    IsSome(MergedRepository(step))
      /\ IsSome(UrlParse(Unwrap(MergedRepository(step))))

MergedUrl(step) == Unwrap(UrlParse(Unwrap(MergedRepository(step))))

OnGithub(step) == HasUrl(step) /\ MergedUrl(step).host = GithubCom

\* the path segments after the leading empty one, '/' and '.' both ending a
\* segment: as many as the path has delimiters
SegmentCount(path) ==
    Cardinality({k \in 1..Len(path) : path[k] \in {"/", "."}})

\* a repository that is no URL, or a github.com URL with fewer than two
\* segments
FatallyMalformed(step) ==
    /\ IsSome(MergedRepository(step))
    /\ \/ ~HasUrl(step)
       \/ OnGithub(step) /\ SegmentCount(MergedUrl(step).path) < 2

OneEntryPerInput ==
    /\ \A i \in PackageSteps :
         /\ trace[i].entry = input[i]
         /\ ~FatallyMalformed(trace[i]) => trace[i].outcome = "pushed"
    /\ IsSome(stdout) =>
         /\ Len(Unwrap(stdout)) = Len(trace)
         /\ Len(trace) >= Len(input)
         /\ ~dbCrates.requested => Len(Unwrap(stdout)) = Len(input)
         /\ \A i \in 1..Len(input) :
              Unwrap(stdout)[i] = Serialize(Unwrap(trace[i].final))
    /\ IsSome(yamlFile) => yamlFile = stdout

RegistryFailed(step) ==
    IsSome(step.fetched) /\ ~Unwrap(step.fetched).response.ok

GithubFailed(step) == IsSome(step.gh) /\ ~Unwrap(step.gh).ok

FailedRegistryLeavesGap ==
    \A i \in PackageSteps :
        (RegistryFailed(trace[i]) /\ trace[i].outcome = "pushed")
            => IsNone(Unwrap(trace[i].final).krate)

StripDotGit(name) ==
    IF Len(name) > Len(DotGit)
         /\ SubSeq(name, Len(name) - Len(DotGit) + 1, Len(name)) = DotGit
    THEN SubSeq(name, 1, Len(name) - Len(DotGit))
    ELSE name

\* the path is /O/R or /O/R.git
OwnerRepoPath(path) ==
    LET segs == Split(path, {"/"})
    IN Len(segs) = 3 /\ segs[1] = <<>> /\ segs[2] # <<>> /\ segs[3] # <<>>

\* C7: when the merged repository is on github.com with path /O/R or
\* /O/R.git, the fetcher is called with owner O and repo R.
C7_OwnerAndRepoPassedUnchanged ==
    \A i \in PackageSteps :
        (OnGithub(trace[i]) /\ OwnerRepoPath(MergedUrl(trace[i]).path)) =>
            LET segs == Split(MergedUrl(trace[i]).path, {"/"})
            IN /\ IsSome(trace[i].gh)
               /\ Unwrap(trace[i].gh).owner = segs[2]
               /\ Unwrap(trace[i].gh).repo = StripDotGit(segs[3])

\* C8: when the merged repository is on another host, or there is none, the
\* fetcher is not called, the run goes on, and the repo metadata is what the
\* merge produced (absent for a registry-sourced entry).
C8_OtherHostsAreNotFetched ==
    \A i \in PackageSteps :
        (IsNone(MergedRepository(trace[i]))
           \/ (HasUrl(trace[i]) /\ ~OnGithub(trace[i]))) =>
            /\ IsNone(trace[i].gh)
            /\ trace[i].outcome = "pushed"
            /\ Unwrap(trace[i].final).repo = trace[i].merged.repo
            /\ trace[i].entry.kind = "CratesIo"
                  => IsNone(Unwrap(trace[i].final).repo)

\* a manual entry with a gitlab.com repository and repo metadata of its own
C8_Witness ==
    \E i \in PackageSteps :
        /\ HasUrl(trace[i])
        /\ MergedUrl(trace[i]).host = GitlabCom
        /\ trace[i].entry.kind = "Manual"
        /\ IsSome(trace[i].merged.repo)
        /\ trace[i].outcome = "pushed"

\* C9: an entry synthesized by category expansion takes the steps of a
\* user-declared entry: merge, repository resolution with a fetcher call when
\* the repository is on github.com, score.
C9_CategoryEntriesAreResolved ==
    \A i \in {k \in CategorySteps : trace[k].outcome = "pushed"} :
        /\ trace[i].merged = fill_manually(trace[i].entry)
        /\ OnGithub(trace[i]) => IsSome(trace[i].gh)
        /\ IsSome(Unwrap(trace[i].final).score)

\* every step of both loops was taken without an error
LoopsDoneBeforeOutput ==
    /\ Len(trace) = Len(input) + Len(dbCrates.crates)
    /\ \A i \in 1..Len(trace) : trace[i].outcome = "pushed"

\* C10: a github.com repository with fewer than two path segments ends the
\* run with nothing written to standard output or to the yaml file; and an
\* ended run has written either nothing, or standard output alone, when the
\* error is that of the yaml write that follows it.
C10_MalformedRepositoryAbortsBeforeOutput ==
    /\ \A i \in PackageSteps :
         (OnGithub(trace[i]) /\ SegmentCount(MergedUrl(trace[i]).path) < 2) =>
            /\ pc = "aborted"
            /\ i = Len(trace)
            /\ IsNone(stdout)
            /\ IsNone(yamlFile)
    /\ pc = "aborted" =>
         /\ IsNone(yamlFile)
         /\ IsSome(stdout) => LoopsDoneBeforeOutput

\* a run that processed one entry, wrote its repo data to the cache, and
\* ended at the second entry's repository
C10_Witness ==
    /\ pc = "aborted"
    /\ Len(trace) = 2
    /\ trace[1].outcome = "pushed"
    /\ Len(generated) = 1
    /\ cache # <<>>
    /\ trace[2].outcome = "ensure"
    /\ IsNone(stdout)

----------------------------------------------------------------------------
(* The read-through cache: C6 (under SpecCache) *)

Called == pc = "called" /\ trace[1].env.pathOk

EventsOf(op) ==
    {k \in 1..Len(trace[1].events) : trace[1].events[k].op = op}

CacheWasRead ==
    /\ Len(trace[1].events) >= 1
    /\ trace[1].events[1].op = "read_cache"
    /\ trace[1].events[1].key
          = trace[1].owner \o <<"-", "-">> \o trace[1].repo
    /\ EventsOf("read_cache") = {1}

CacheHit == trace[1].events[1].hit

\* C6: get_repo_data reads the cache under owner--repo; on a hit no remote
\* query is made; on a miss (no file, or one that does not deserialize)
\* exactly one remote query is made and its response is written to the cache
\* before it is parsed; a failed write changes nothing in the result.
C6_ReadThroughCache ==
    Called =>
        /\ CacheWasRead
        /\ CacheHit =>
             /\ EventsOf("graphql") = {}
             /\ EventsOf("write_cache") = {}
             /\ cache = trace[1].before
        /\ ~CacheHit =>
             /\ EventsOf("graphql") = {2}
             /\ trace[1].events[2].owner = trace[1].owner
             /\ trace[1].events[2].repo = trace[1].repo
             /\ trace[1].env.remote.kind = "value" =>
                  /\ EventsOf("write_cache") = {3}
                  /\ trace[1].events[3].key = trace[1].events[1].key
                  /\ trace[1].events[3].data = trace[1].env.remote.value
                  /\ EventsOf("from_graphql_data") = {4}
                  /\ trace[1].env.writable =>
                       /\ trace[1].events[1].key \in DOMAIN cache
                       /\ cache[trace[1].events[1].key]
                            = Some(trace[1].env.remote.value)
                  /\ trace[1].result =
                       get_repo_data(trace[1].owner, trace[1].repo,
                                     [trace[1].env EXCEPT !.writable = TRUE],
                                     trace[1].before).result

\* a miss over a file that does not deserialize, a good answer, a failed
\* write, and still the repo data
C6_Witness ==
    /\ Called
    /\ CacheKey(trace[1].owner, trace[1].repo) \in DOMAIN trace[1].before
    /\ trace[1].before[CacheKey(trace[1].owner, trace[1].repo)] = Garbage
    /\ ~CacheHit
    /\ trace[1].env.remote.kind = "value"
    /\ ~trace[1].env.writable
    /\ trace[1].result.ok
    /\ cache = trace[1].before

====
